---------------------------- MODULE Spec2Model ----------------------------
(***************************************************************************)
(* Dinnercaster: the meal-planning widget (three variants of App) and the  *)
(* backend record store behind the add_meal / remove_meal / show_meals     *)
(* tools.                                                                  *)
(*                                                                         *)
(* Widget variants                                                         *)
(*   "notes"    src/src/dinnercaster/dinnercaster.jsx  (editable, notes)   *)
(*   "readonly" src/unnamed/part_003                   (read-only)         *)
(*   "nonotes"  src/unnamed/part_004                   (editable, no notes)*)
(*                                                                         *)
(* JavaScript values are modelled as tagged records [t, s, n]:             *)
(*   t = "undef" (missing key / undefined), "null", "str", "num".          *)
(* A `.meals` property is modelled as [tag, items]:                        *)
(*   tag = "undef"  no meals field (or the owner is null)                  *)
(*         "falsy"  a falsy non-list value (0, "", false, null)            *)
(*         "bad"    a truthy value that is not an array (string, object)   *)
(*         "list"   an array of meal records, held in items                *)
(*                                                                         *)
(* Modelling assumptions                                                   *)
(*   - uid() (crypto.randomUUID, or time+random) never repeats a value and *)
(*     never returns an id the server or an earlier widget lifetime used.  *)
(*   - Tool outputs come from the backend, so the ids present in one       *)
(*     payload are pairwise distinct; a payload record may lack an id      *)
(*     (buildInitialData handles that case).                               *)
(*   - useWidgetState (src/use-widget-state, not among the source files)   *)
(*     is a state cell: its initial value is the initializer's result and  *)
(*     setData replaces it synchronously.                                  *)
(***************************************************************************)
EXTENDS Integers, Sequences, FiniteSets, TLC

VARIABLES
    variant,        \* which App this widget is
    pc,             \* "init" | "rendered" | "mounted" | "crashed"
    toolOutput,     \* window.openai.toolOutput as last delivered by the host
    widgetState,    \* window.openai.widgetState found at load (cached state)
    data,           \* the view model: data.meals of useWidgetState's state
    lastSynced,     \* lastSyncedToolOutputRef.current (read-only variant)
    nextUid,        \* number of uid() values generated so far
    err,            \* an exception escaped a render or an effect
    store,          \* backend record store (ordered)
    storeSeq,       \* number of ids the backend has generated
    result,         \* result of the last backend tool call
    toolCalls,      \* tool calls issued by the widget itself
    steps,          \* deliveries and local edits after mount (bounded)
    calls,          \* backend tool calls handled (bounded)
    lastApplied,    \* history: meals of the last tool output that was applied
    lastBuilt,      \* history: view-model records built from lastApplied
    dirty,          \* history: a local edit was made since the last applied output
    appliedLog,     \* history: the meals applied, in order (kept by SpecReadonly)
    added,          \* history: the records successful add_meal calls returned
    removed,        \* history: the ids successful remove_meal calls were given
    lock,           \* the caller holding the store's mutex, 0 when it is free
    flight,         \* per caller: the tool call it has in progress
    commits,        \* history: the calls in the order they wrote the store
    dpc,            \* deploy.sh: the command the run is at
    pnpm,           \* deploy.sh: pnpm is installed on the machine of the run
    cloud,          \* the Cloud Run service: exists, its URL, its BASE_URL
    sh,             \* deploy.sh: EXISTING_URL, TEMP_BASE_URL, SERVICE_URL
    trace,          \* history: the commands the run has completed
    runs,           \* number of runs of deploy.sh started
    lastOp          \* history: what the last step was

vars == <<variant, pc, toolOutput, widgetState, data, lastSynced, nextUid, err,
          store, storeSeq, result, toolCalls, steps, calls,
          lastApplied, lastBuilt, dirty, appliedLog, added, removed, lock,
          flight,
          commits, dpc, pnpm, cloud, sh, trace, runs, lastOp>>

widgetVars == <<variant, pc, toolOutput, widgetState, data, lastSynced, nextUid,
                err, toolCalls, steps, lastApplied, lastBuilt,
                dirty, appliedLog>>

deployVars == <<dpc, pnpm, cloud, sh, trace, runs>>

backendVars == <<store, storeSeq, result, calls, added, removed, lock, flight,
                 commits>>

---------------------------------------------------------------------------
(* Bounds *)

\* longest meals list a tool output carries
MaxLen == 2

\* deliveries and local edits after mount
MaxSteps == 2

\* tool calls the backend serves on its own (SpecStore)
MaxCalls == 4

\* tool calls the backend serves while a widget is shown (SpecSystem)
MaxSystemCalls == 2

\* callers that may have a tool call in progress at the same time
MaxCallers == 2

\* tool calls made by those callers (SpecConc)
MaxConcCalls == 3

\* runs of deploy.sh
MaxRuns == 2

---------------------------------------------------------------------------
(* JavaScript values *)

Undef == [t |-> "undef", s |-> "", n |-> 0]

Null == [t |-> "null", s |-> "", n |-> 0]

Str(x) == [t |-> "str", s |-> x, n |-> 0]

Num(k) == [t |-> "num", s |-> "", n |-> k]

\* an id string the backend assigned
SrvId(k) == [t |-> "str", s |-> "srv", n |-> k]

\* an id string a previous widget lifetime generated and cached
OldUid == [t |-> "str", s |-> "old", n |-> 1]

\* a ?? b
Nullish(v) == v.t \in {"undef", "null"}

Coalesce(a, b) == IF Nullish(a) THEN b ELSE a

\* the k-th value uid() returns in this widget's lifetime
uid(k) == [t |-> "str", s |-> "uid", n |-> k]

MUndef == [tag |-> "undef", items |-> <<>>]

MFalsy == [tag |-> "falsy", items |-> <<>>]

MBad == [tag |-> "bad", items |-> <<>>]

MList(items) == [tag |-> "list", items |-> items]

\* JavaScript truthiness of a meals value (an array, even empty, is truthy)
Truthy(m) == m.tag \in {"bad", "list"}

\* a || b
OrElse(a, b) == IF Truthy(a) THEN a ELSE b

\* toolOutput?.meals, widgetState?.meals
MealsOf(o) == IF o.isNull THEN MUndef ELSE o.meals

NullObj == [isNull |-> TRUE, meals |-> MUndef]

Obj(m) == [isNull |-> FALSE, meals |-> m]

Ids(items) == {items[i].id : i \in 1..Len(items)}

\* no two records carry the same (present) id
DistinctIds(items) ==
    \A i, j \in 1..Len(items) :
        (i # j /\ ~Nullish(items[i].id)) => items[i].id # items[j].id


---------------------------------------------------------------------------
(* Inputs the host can hand to the widget *)

\* ids the backend assigned to two records
IdA == SrvId(1)

IdB == SrvId(2)

\* records of a tool output.  The backend assigns ids, but a record may
\* arrive without one, without a meal name, or with a date that is no string.
PayloadRecords ==
    {[id |-> IdA, date |-> Undef, meal |-> Str("Tacos"), notes |-> Undef],
     [id |-> IdB, date |-> Str("2025-12-01"), meal |-> Str("Pizza"),
      notes |-> Str("spicy")],
     [id |-> Undef, date |-> Num(20251201), meal |-> Undef, notes |-> Null]}

SeqsUpTo(S, n) == UNION {[1..k -> S] : k \in 0..n}

Payloads == {p \in SeqsUpTo(PayloadRecords, MaxLen) : DistinctIds(p)}

NoList == {NullObj, Obj(MUndef), Obj(MFalsy), Obj(MBad)}

ToolOutputs == NoList \cup {Obj(MList(p)) : p \in Payloads}

\* a cached widget state is a view model an earlier lifetime saved: every
\* record has an id, ids are distinct
Cached ==
    <<[id |-> IdA, date |-> Undef, meal |-> Str("Nachos"), notes |-> Undef],
      [id |-> OldUid, date |-> Undef, meal |-> Str("Nachos"), notes |-> Undef]>>

CachedLists == {SubSeq(Cached, 1, n) : n \in 0..Len(Cached)}

WidgetStates ==
    {NullObj, Obj(MUndef), Obj(MBad)} \cup {Obj(MList(c)) : c \in CachedLists}

Variants == {"notes", "readonly", "nonotes"}

Editable == {"notes", "nonotes"}

---------------------------------------------------------------------------
(* buildInitialData *)

\* how many uid() calls the map has made before it reaches index i
FreshBefore(items, i) == Cardinality({j \in 1..(i - 1) : Nullish(items[j].id)})

\* dinnercaster.jsx: addMealDefaults; fresh is what uid() returns if called
addMealDefaults(m, fresh) ==
    [id |-> Coalesce(m.id, fresh),
     date |-> IF m.date.t = "str" THEN m.date ELSE Null,
     meal |-> Coalesce(m.meal, Str("")),
     notes |-> Coalesce(m.notes, Str(""))]

\* part_004: addMealDefaults keeps id and meal only
addMealDefaultsNoNotes(m, fresh) ==
    [id |-> Coalesce(m.id, fresh),
     date |-> Undef,
     meal |-> Coalesce(m.meal, Str("")),
     notes |-> Undef]

\* uid() called once, outside the map: every record without an id gets the
\* same generated id
buildInitialData_OneUid(to, base) ==
    LET m == OrElse(MealsOf(to), MList(<<>>)) IN
    IF m.tag = "bad"
    THEN [throws |-> TRUE, meals |-> MBad, next |-> base]
    ELSE [throws |-> FALSE,
          meals |-> MList([i \in 1..Len(m.items) |->
                      addMealDefaults(m.items[i], uid(base + 1))]),
          next |-> base + 1]

\* a build that takes the payload's date as it comes
buildInitialData_RawDate(to, base) ==
    LET m == OrElse(MealsOf(to), MList(<<>>)) IN
    IF m.tag = "bad"
    THEN [throws |-> TRUE, meals |-> MBad, next |-> base]
    ELSE [throws |-> FALSE,
          meals |-> MList([i \in 1..Len(m.items) |->
                      [addMealDefaults(m.items[i],
                                       uid(base + FreshBefore(m.items, i) + 1))
                         EXCEPT !.date = m.items[i].date]]),
          next |-> base + FreshBefore(m.items, Len(m.items) + 1)]

\* dinnercaster.jsx: buildInitialData(toolOutput); base = uid() values used so
\* far.  (toolOutput?.meals || []).map(...) throws when meals is truthy and
\* not an array.
buildInitialData(to, base) ==
    LET m == OrElse(MealsOf(to), MList(<<>>)) IN
    IF m.tag = "bad"
    THEN [throws |-> TRUE, meals |-> MBad, next |-> base]
    ELSE [throws |-> FALSE,
          meals |-> MList([i \in 1..Len(m.items) |->
                      addMealDefaults(m.items[i],
                                      uid(base + FreshBefore(m.items, i) + 1))]),
          next |-> base + FreshBefore(m.items, Len(m.items) + 1)]

\* part_004: buildInitialData(toolOutput, widgetState)
buildInitialDataNoNotes(to, ws, base) ==
    LET m == OrElse(MealsOf(ws), OrElse(MealsOf(to), MList(<<>>))) IN
    IF m.tag = "bad"
    THEN [throws |-> TRUE, meals |-> MBad, next |-> base]
    ELSE [throws |-> FALSE,
          meals |-> MList([i \in 1..Len(m.items) |->
                      addMealDefaultsNoNotes(m.items[i],
                                      uid(base + FreshBefore(m.items, i) + 1))]),
          next |-> base + FreshBefore(m.items, Len(m.items) + 1)]

---------------------------------------------------------------------------
(* JSON.stringify, as a sequence of tokens *)

Tok(x) == [t |-> "tok", s |-> x, n |-> 0]

\* a key whose value is undefined is left out
FieldTokens(key, v) == IF v.t = "undef" THEN <<>> ELSE <<Tok(key), v>>

RecordTokens(m) ==
    <<Tok("{")>> \o FieldTokens("id", m.id) \o FieldTokens("date", m.date)
        \o FieldTokens("meal", m.meal) \o FieldTokens("notes", m.notes)
        \o <<Tok("}")>>

RECURSIVE ItemsTokens(_)
ItemsTokens(items) ==
    IF items = <<>> THEN <<>>
    ELSE RecordTokens(Head(items)) \o ItemsTokens(Tail(items))

\* lastSyncedToolOutputRef.current before any sync
MNull == [tag |-> "null", items |-> <<>>]

JSONstringify(m) ==
    CASE m.tag = "list" -> <<Tok("[")>> \o ItemsTokens(m.items) \o <<Tok("]")>>
      [] m.tag = "null" -> <<Tok("null")>>
      [] m.tag = "bad"  -> <<Tok("bad")>>
      [] OTHER          -> <<>>

---------------------------------------------------------------------------
(* App: initial state and rendering *)

\* useWidgetState(init): the state starts as the initializer's result
useWidgetState(init) == init

\* dinnercaster.jsx: the initializer handed to useWidgetState
NotesInitialState(to, ws, base) ==
    IF Truthy(MealsOf(ws))
    THEN [throws |-> FALSE, meals |-> MealsOf(ws), next |-> base]
    ELSE IF Truthy(MealsOf(to))
         THEN buildInitialData(to, base)
         ELSE [throws |-> FALSE, meals |-> MList(<<>>), next |-> base]

\* part_003: meals: widgetState?.meals || toolOutput?.meals || []
ReadonlyInitialState(to, ws, base) ==
    [throws |-> FALSE,
     meals |-> OrElse(MealsOf(ws), OrElse(MealsOf(to), MList(<<>>))),
     next |-> base]

\* part_004: buildInitialData(toolOutput, widgetState)
NoNotesInitialState(to, ws, base) == buildInitialDataNoNotes(to, ws, base)

InitialState(v, to, ws, base) ==
    CASE v = "notes"    -> NotesInitialState(to, ws, base)
      [] v = "readonly" -> ReadonlyInitialState(to, ws, base)
      [] v = "nonotes"  -> NoNotesInitialState(to, ws, base)

\* App's JSX: meals = data?.meals || []; meals.length === 0 ? ... : meals.map(...)
\* throws when meals is truthy and not an array
RenderThrows(d) == d.tag = "bad"

---------------------------------------------------------------------------
(* App: the effect that syncs toolOutput into the state.  Each returns the  *)
(* new state, whether the output was applied and whether it threw.          *)

\* a sync that merges: records of the old view model the payload does not
\* name are kept after the payload's
NotesSyncEffect_Merge(d, to, ls, base) ==
    IF Truthy(MealsOf(to))
    THEN LET b == buildInitialData(to, base)
             kept == SelectSeq(d.items, LAMBDA m : m.id \notin Ids(b.meals.items)) IN
         [data |-> IF b.throws THEN d ELSE MList(b.meals.items \o kept),
          lastSynced |-> ls, next |-> b.next, applied |-> ~b.throws,
          throws |-> b.throws]
    ELSE [data |-> d, lastSynced |-> ls, next |-> base, applied |-> FALSE,
          throws |-> FALSE]

\* dinnercaster.jsx: useEffect(() => { if (toolOutput?.meals) setData(...) })
NotesSyncEffect(d, to, ls, base) ==
    IF Truthy(MealsOf(to))
    THEN LET b == buildInitialData(to, base) IN
         [data |-> IF b.throws THEN d ELSE b.meals, lastSynced |-> ls,
          next |-> b.next, applied |-> ~b.throws, throws |-> b.throws]
    ELSE [data |-> d, lastSynced |-> ls, next |-> base, applied |-> FALSE,
          throws |-> FALSE]

\* part_004: setData(buildInitialData(toolOutput, undefined))
NoNotesSyncEffect(d, to, ls, base) ==
    IF Truthy(MealsOf(to))
    THEN LET b == buildInitialDataNoNotes(to, NullObj, base) IN
         [data |-> IF b.throws THEN d ELSE b.meals, lastSynced |-> ls,
          next |-> b.next, applied |-> ~b.throws, throws |-> b.throws]
    ELSE [data |-> d, lastSynced |-> ls, next |-> base, applied |-> FALSE,
          throws |-> FALSE]

\* a sync that forgets to set lastSyncedToolOutputRef.current
ReadonlySyncEffect_RefNotSet(d, to, ls, base) ==
    LET toolOutputMeals == MealsOf(to) IN
    IF Truthy(toolOutputMeals)
       /\ JSONstringify(toolOutputMeals) # JSONstringify(ls)
    THEN [data |-> toolOutputMeals, lastSynced |-> ls,
          next |-> base, applied |-> ~RenderThrows(toolOutputMeals),
          throws |-> RenderThrows(toolOutputMeals)]
    ELSE [data |-> d, lastSynced |-> ls, next |-> base, applied |-> FALSE,
          throws |-> FALSE]

\* part_003: apply only when the meals differ from the last synced ones; the
\* render that follows setData throws on a value that is not an array
ReadonlySyncEffect(d, to, ls, base) ==
    LET toolOutputMeals == MealsOf(to) IN
    IF Truthy(toolOutputMeals)
       /\ JSONstringify(toolOutputMeals) # JSONstringify(ls)
    THEN [data |-> toolOutputMeals, lastSynced |-> toolOutputMeals,
          next |-> base, applied |-> ~RenderThrows(toolOutputMeals),
          throws |-> RenderThrows(toolOutputMeals)]
    ELSE [data |-> d, lastSynced |-> ls, next |-> base, applied |-> FALSE,
          throws |-> FALSE]

\* a sync that empties the view model when the output brings no meals
SyncEffect_ResetOnAbsent(v, d, to, ls, base) ==
    IF ~Truthy(MealsOf(to))
    THEN [data |-> MList(<<>>), lastSynced |-> ls, next |-> base,
          applied |-> FALSE, throws |-> FALSE]
    ELSE CASE v = "notes"    -> NotesSyncEffect(d, to, ls, base)
           [] v = "readonly" -> ReadonlySyncEffect(d, to, ls, base)
           [] v = "nonotes"  -> NoNotesSyncEffect(d, to, ls, base)

SyncEffect(v, d, to, ls, base) ==
    CASE v = "notes"    -> NotesSyncEffect(d, to, ls, base)
      [] v = "readonly" -> ReadonlySyncEffect(d, to, ls, base)
      [] v = "nonotes"  -> NoNotesSyncEffect(d, to, ls, base)

---------------------------------------------------------------------------
(* App: local edits (setData with an updater) *)

\* a key that val does not hold
NoKey == [t |-> "nokey", s |-> "", n |-> 0]

\* { ...m, ...val }
Spread(m, val) ==
    [m EXCEPT !.meal = IF val.meal = NoKey THEN @ ELSE val.meal,
              !.notes = IF val.notes = NoKey THEN @ ELSE val.notes]

\* the new record put last
addMealNotes_Append(items, newId) ==
    items \o
    <<[id |-> newId, date |-> Str("today"), meal |-> Str(""), notes |-> Str("")]>>

\* dinnercaster.jsx addMeal: the new record goes first
addMealNotes(items, newId) ==
    <<[id |-> newId, date |-> Str("today"), meal |-> Str(""), notes |-> Str("")]>>
        \o items

\* part_004 addMeal
addMealNoNotes(items, newId) ==
    <<[id |-> newId, date |-> Undef, meal |-> Str(""), notes |-> Undef]>> \o items

addMeal(v, items, newId) ==
    IF v = "notes" THEN addMealNotes(items, newId) ELSE addMealNoNotes(items, newId)

\* a delete that drops the record at the front, whatever its id
deleteMealById_Front(items, id) ==
    IF items = <<>> THEN items ELSE Tail(items)

\* the filter's test turned round: only the named record is kept
deleteMealById_Keep(items, id) == SelectSeq(items, LAMBDA m : m.id = id)

\* prev.meals.filter((m) => m.id !== id)
deleteMealById(items, id) == SelectSeq(items, LAMBDA m : m.id # id)

\* the id test left out: val is spread into every record
updateMealById_All(items, id, val) ==
    [i \in 1..Len(items) |-> Spread(items[i], val)]

\* prev.meals.map((m) => (m.id === id ? { ...m, ...val } : m))
updateMealById(items, id, val) ==
    [i \in 1..Len(items) |->
        IF items[i].id = id THEN Spread(items[i], val) ELSE items[i]]

---------------------------------------------------------------------------
(* Backend record store: add_meal, remove_meal, show_meals *)

MealArgs == {Undef, Str(""), Str("Tacos"), Str("Pizza")}

DateArgs ==
    {Undef, Str(""), Str("12/01/2025"), Str("2025-12-01"), Str("2025-12-02")}

NotesArgs == {Undef, Str("spicy")}

Digits == {"0", "1", "2", "3", "4", "5", "6", "7", "8", "9"}

\* the characters of the date strings of the argument set
Chars(d) ==
    CASE d = Str("2025-12-01") -> <<"2", "0", "2", "5", "-", "1", "2", "-", "0", "1">>
      [] d = Str("12/01/2025") -> <<"1", "2", "/", "0", "1", "/", "2", "0", "2", "5">>
      [] d = Str("2025-12-02") -> <<"2", "0", "2", "5", "-", "1", "2", "-", "0", "2">>
      [] OTHER                 -> <<>>

\* four digits, a dash, two digits, a dash, two digits
IsYMD(cs) ==
    /\ Len(cs) = 10
    /\ \A i \in 1..Len(cs) :
          IF i \in {5, 8} THEN cs[i] = "-" ELSE cs[i] \in Digits

\* the date strings of the argument set that have the form YYYY-MM-DD
WellFormedDates == {d \in DateArgs : d.t = "str" /\ IsYMD(Chars(d))}

ValidAdd(meal, date) ==
    /\ meal.t = "str" /\ meal.s # ""
    /\ date \in WellFormedDates

NoResult == [kind |-> "none", flag |-> FALSE, recs |-> <<>>]

\* the new id taken from the number of records held
StoreAdd_IdFromLength(st, seq, meal, date, notes) ==
    IF ValidAdd(meal, date)
    THEN LET r == [id |-> SrvId(Len(st) + 1), date |-> date, meal |-> meal,
                   notes |-> notes] IN
         [store |-> Append(st, r), seq |-> seq + 1,
          result |-> [kind |-> "record", flag |-> TRUE, recs |-> <<r>>]]
    ELSE [store |-> st, seq |-> seq,
          result |-> [kind |-> "ValidationError", flag |-> FALSE, recs |-> <<>>]]

\* an add that takes any non-empty date string
StoreAdd_AnyDate(st, seq, meal, date, notes) ==
    IF meal.t = "str" /\ meal.s # "" /\ date.t = "str" /\ date.s # ""
    THEN LET r == [id |-> SrvId(seq + 1), date |-> date, meal |-> meal,
                   notes |-> notes] IN
         [store |-> Append(st, r), seq |-> seq + 1,
          result |-> [kind |-> "record", flag |-> TRUE, recs |-> <<r>>]]
    ELSE [store |-> st, seq |-> seq,
          result |-> [kind |-> "ValidationError", flag |-> FALSE, recs |-> <<>>]]

\* add(meal, date, notes): a fresh id, the record appended and returned
StoreAdd(st, seq, meal, date, notes) ==
    IF ValidAdd(meal, date)
    THEN LET r == [id |-> SrvId(seq + 1), date |-> date, meal |-> meal,
                   notes |-> notes] IN
         [store |-> Append(st, r), seq |-> seq + 1,
          result |-> [kind |-> "record", flag |-> TRUE, recs |-> <<r>>]]
    ELSE [store |-> st, seq |-> seq,
          result |-> [kind |-> "ValidationError", flag |-> FALSE, recs |-> <<>>]]

\* a remove that drops the record and every one added after it
StoreRemove_Truncate(st, id) ==
    [store |-> IF id \in Ids(st)
               THEN SubSeq(st, 1, (CHOOSE k \in 1..Len(st) : st[k].id = id) - 1)
               ELSE st,
     result |-> [kind |-> "bool", flag |-> id \in Ids(st), recs |-> <<>>]]

\* remove(id): whether a record was removed
StoreRemove(st, id) ==
    [store |-> SelectSeq(st, LAMBDA r : r.id # id),
     result |-> [kind |-> "bool", flag |-> id \in Ids(st), recs |-> <<>>]]

\* a list that returns the newest record first
StoreList_NewestFirst(st) ==
    [kind |-> "list", flag |-> TRUE,
     recs |-> [i \in 1..Len(st) |-> st[Len(st) + 1 - i]]]

\* list(): the whole collection, in order
StoreList(st) == [kind |-> "list", flag |-> TRUE, recs |-> st]

---------------------------------------------------------------------------
(* The state machine *)

\* no value handed over
NoVal == [meal |-> NoKey, notes |-> NoKey]

\* no service deployed yet
NoService == [exists |-> FALSE, url |-> "", baseUrl |-> ""]

\* the script's variables before it sets them
NoShellVars == [EXISTING_URL |-> "", TEMP_BASE_URL |-> "", SERVICE_URL |-> ""]

Callers == 1..MaxCallers

\* a caller with no call in progress
Idle == [phase |-> "idle", op |-> "none", meal |-> Undef, date |-> Undef,
         notes |-> Undef, id |-> Undef, snap |-> <<>>, seq |-> 0]

NoOp == [name |-> "none", applied |-> FALSE, wasDirty |-> FALSE, dup |-> FALSE,
         hit |-> FALSE, arg |-> Undef, val |-> NoVal]

Op(name, applied, wasDirty, dup, hit, arg, val) ==
    [name |-> name, applied |-> applied, wasDirty |-> wasDirty, dup |-> dup,
     hit |-> hit, arg |-> arg, val |-> val]

Init ==
    /\ variant \in Variants
    /\ pc = "init"
    /\ toolOutput \in ToolOutputs
    /\ widgetState \in WidgetStates
    /\ data = MUndef
    /\ lastSynced = MNull
    /\ nextUid = 0
    /\ err = FALSE
    /\ store = <<>>
    /\ storeSeq = 0
    /\ result = NoResult
    /\ toolCalls = 0
    /\ steps = 0
    /\ calls = 0
    /\ lastApplied = MNull
    /\ lastBuilt = <<>>
    /\ dirty = FALSE
    /\ appliedLog = <<>>
    /\ added = <<>>
    /\ removed = {}
    /\ lock = 0
    /\ flight = [c \in Callers |-> Idle]
    /\ commits = <<>>
    /\ dpc = "idle"
    /\ pnpm = TRUE
    /\ cloud = NoService
    /\ sh = NoShellVars
    /\ trace = <<>>
    /\ runs = 0
    /\ lastOp = NoOp

\* first render of App: the useWidgetState initializer, then the JSX
Render ==
    /\ pc = "init"
    /\ \E s0 \in {useWidgetState(InitialState(variant, toolOutput, widgetState,
                                              nextUid))} :
       LET crash == s0.throws \/ RenderThrows(s0.meals) IN
       /\ data' = IF s0.throws THEN data ELSE s0.meals
       /\ nextUid' = s0.next
       /\ err' = crash
       /\ pc' = IF crash THEN "crashed" ELSE "rendered"
       /\ lastOp' = Op("render", FALSE, FALSE, FALSE, FALSE, Undef, NoVal)
    /\ UNCHANGED <<variant, toolOutput, widgetState, lastSynced, toolCalls,
                   steps, lastApplied, lastBuilt, dirty, appliedLog>>
    /\ UNCHANGED backendVars
    /\ UNCHANGED deployVars

\* what a run of the sync effect does to the widget
RunSyncEffect(to, name) ==
    \E e \in {SyncEffect(variant, data, to, lastSynced, nextUid)} :
    /\ data' = e.data
    /\ lastSynced' = e.lastSynced
    /\ nextUid' = e.next
    /\ err' = e.throws
    /\ pc' = IF e.throws THEN "crashed" ELSE "mounted"
    /\ lastApplied' = IF e.applied THEN MealsOf(to) ELSE lastApplied
    /\ lastBuilt' = IF e.applied THEN e.data.items ELSE lastBuilt
    /\ dirty' = IF e.applied THEN FALSE ELSE dirty
    /\ lastOp' = Op(name, e.applied, dirty,
                    lastApplied.tag = "list" /\ MealsOf(to) = lastApplied,
                    FALSE, Undef, NoVal)

\* the effect's run after the first render (appliedLog is left to the
\* specification)
MountEffect ==
    /\ pc = "rendered"
    /\ RunSyncEffect(toolOutput, "mount")
    /\ UNCHANGED <<variant, toolOutput, widgetState, toolCalls, steps>>
    /\ UNCHANGED backendVars
    /\ UNCHANGED deployVars

\* the host sets window.openai.toolOutput to a new object (the result of a
\* tool call, equal in content to the previous one or not): App re-renders and,
\* the dependency [toolOutput] having changed, the effect runs
Deliver(to) ==
    /\ pc = "mounted"
    /\ steps < MaxSteps
    /\ toolOutput' = to
    /\ steps' = steps + 1
    /\ RunSyncEffect(to, "deliver")
    /\ UNCHANGED <<variant, widgetState, toolCalls>>
    /\ UNCHANGED backendVars
    /\ UNCHANGED deployVars

\* an edit handler that also pushes the new list to the backend with a tool
\* call
LocalEdit_Persist(items, name, hit, arg, val) ==
    /\ data' = MList(items)
    /\ steps' = steps + 1
    /\ dirty' = TRUE
    /\ lastOp' = Op(name, FALSE, dirty, FALSE, hit, arg, val)
    /\ toolCalls' = toolCalls + 1
    /\ store' = items
    /\ UNCHANGED <<variant, pc, toolOutput, widgetState, lastSynced, err,
                   lastApplied, lastBuilt, appliedLog>>
    /\ UNCHANGED <<storeSeq, result, calls, added, removed, lock, flight,
                   commits>>
    /\ UNCHANGED deployVars

\* setData((prev) => ({ meals: ... })): the state is replaced at once; nothing
\* else is written
LocalEdit(items, name, hit, arg, val) ==
    /\ data' = MList(items)
    /\ steps' = steps + 1
    /\ dirty' = TRUE
    /\ lastOp' = Op(name, FALSE, dirty, FALSE, hit, arg, val)
    /\ UNCHANGED <<variant, pc, toolOutput, widgetState, lastSynced, err,
                   toolCalls, lastApplied, lastBuilt, appliedLog>>
    /\ UNCHANGED backendVars
    /\ UNCHANGED deployVars

AddMeal ==
    /\ pc = "mounted"
    /\ variant \in Editable
    /\ steps < MaxSteps
    /\ nextUid' = nextUid + 1
    /\ LocalEdit(addMeal(variant, data.items, uid(nextUid + 1)), "addMeal",
                 FALSE, uid(nextUid + 1), NoVal)

DeleteMealById(id) ==
    /\ pc = "mounted"
    /\ variant = "notes"
    /\ steps < MaxSteps
    /\ nextUid' = nextUid
    /\ LocalEdit(deleteMealById(data.items, id), "deleteMealById",
                 id \in Ids(data.items), id, NoVal)

UpdateMealById(id, val) ==
    /\ pc = "mounted"
    /\ variant \in Editable
    /\ variant = "nonotes" => val.notes = NoKey
    /\ steps < MaxSteps
    /\ nextUid' = nextUid
    /\ LocalEdit(updateMealById(data.items, id, val), "updateMealById",
                 id \in Ids(data.items), id, val)

BackendCall(r) ==
    /\ calls < MaxCalls
    /\ calls' = calls + 1
    /\ store' = r.store
    /\ storeSeq' = r.seq
    /\ result' = r.result
    /\ UNCHANGED <<lock, flight, commits>>
    /\ UNCHANGED widgetVars
    /\ UNCHANGED deployVars

AddMealTool(meal, date, notes) ==
    /\ BackendCall(StoreAdd(store, storeSeq, meal, date, notes))
    /\ added' = IF result'.kind = "record"
                 THEN Append(added, [id |-> result'.recs[1].id, date |-> date,
                                     meal |-> meal, notes |-> notes])
                 ELSE added
    /\ removed' = removed
    /\ lastOp' = Op("add_meal", FALSE, dirty, FALSE, FALSE, Undef,
                    [meal |-> meal, date |-> date, notes |-> notes])

RemoveMealTool(id) ==
    /\ BackendCall([store |-> StoreRemove(store, id).store, seq |-> storeSeq,
                    result |-> StoreRemove(store, id).result])
    /\ added' = added
    /\ removed' = IF result'.flag THEN removed \cup {id} ELSE removed
    /\ lastOp' = Op("remove_meal", FALSE, dirty, FALSE, id \in Ids(store), id, NoVal)

ShowMealsTool ==
    /\ BackendCall([store |-> store, seq |-> storeSeq, result |-> StoreList(store)])
    /\ UNCHANGED <<added, removed>>
    /\ lastOp' = Op("show_meals", FALSE, dirty, FALSE, FALSE, Undef, NoVal)

\* an id that no record carries
MissingId == [t |-> "str", s |-> "missing", n |-> 0]

EditIds == Ids(data.items) \cup {MissingId}

\* values for updateMealById: { meal } from MealItem's input, { notes } from
\* its textarea, and one holding both
EditVals ==
    {[meal |-> Str("Tac"), notes |-> NoKey],
     [meal |-> NoKey, notes |-> Str("hot")],
     [meal |-> Str("Tac"), notes |-> Str("hot")]}

\* the widget under a host that may deliver any tool output
Next ==
    \/ Render
    \/ MountEffect /\ UNCHANGED appliedLog
    \/ \E to \in ToolOutputs : Deliver(to) /\ UNCHANGED appliedLog
    \/ AddMeal
    \/ \E id \in EditIds : DeleteMealById(id)
    \/ \E id \in EditIds, val \in EditVals : UpdateMealById(id, val)

Spec == Init /\ [][Next]_vars

\* the meals of an applied tool output are added to the log
LogApplied ==
    appliedLog' = IF lastOp'.applied
                  THEN Append(appliedLog, MealsOf(toolOutput'))
                  ELSE appliedLog

\* the read-only widget, fresh (no cached state), with the log of what it
\* applied
InitReadonly ==
    /\ Init
    /\ variant = "readonly"
    /\ widgetState = NullObj

NextReadonly ==
    \/ Render
    \/ MountEffect /\ LogApplied
    \/ \E to \in ToolOutputs : Deliver(to) /\ LogApplied

SpecReadonly == InitReadonly /\ [][NextReadonly]_vars

\* the backend alone, before any widget is shown
InitStore ==
    /\ Init
    /\ variant = "notes"
    /\ toolOutput = NullObj
    /\ widgetState = NullObj

NextStore ==
    \/ \E meal \in MealArgs, date \in DateArgs, notes \in NotesArgs :
          AddMealTool(meal, date, notes)
    \/ \E id \in Ids(store) \cup {MissingId} : RemoveMealTool(id)
    \/ ShowMealsTool

SpecStore == InitStore /\ [][NextStore]_vars

\* the tool output the host hands over after a tool call: the stored meals
StoreOutput == Obj(MList(store))

\* the add_meal calls of the combined specifications: two that succeed, one
\* that is rejected
SystemAdds ==
    {[meal |-> Str("Tacos"), date |-> Str("2025-12-01"), notes |-> Undef],
     [meal |-> Str("Pizza"), date |-> Str("2025-12-02"), notes |-> Str("spicy")],
     [meal |-> Str(""), date |-> Str("2025-12-01"), notes |-> Undef]}

\* what a call does to the collection it reads
ApplyCall(f, st, seq) ==
    IF f.op = "add_meal"
    THEN StoreAdd(st, seq, f.meal, f.date, f.notes)
    ELSE [store |-> StoreRemove(st, f.id).store, seq |-> seq,
          result |-> StoreRemove(st, f.id).result]

\* a tool call arrives for caller c while other calls may be in progress
CallTool(c, op, a, id) ==
    /\ calls < MaxConcCalls
    /\ flight[c].phase = "idle"
    /\ flight' = [flight EXCEPT ![c] =
                     [phase |-> "waiting", op |-> op, meal |-> a.meal,
                      date |-> a.date, notes |-> a.notes, id |-> id,
                      snap |-> <<>>, seq |-> 0]]
    /\ calls' = calls + 1
    /\ lastOp' = Op("call", FALSE, dirty, FALSE, FALSE, id, NoVal)
    /\ UNCHANGED <<store, storeSeq, result, added, removed, lock, commits>>
    /\ UNCHANGED widgetVars
    /\ UNCHANGED deployVars

\* a handler that reads the collection without waiting for the mutex
Begin_NoMutex(c) ==
    /\ flight[c].phase = "waiting"
    /\ lock' = c
    /\ flight' = [flight EXCEPT ![c].phase = "begun", ![c].snap = store,
                                ![c].seq = storeSeq]
    /\ lastOp' = Op("begin", FALSE, dirty, FALSE, FALSE, flight[c].id, NoVal)
    /\ UNCHANGED <<store, storeSeq, result, calls, added, removed, commits>>
    /\ UNCHANGED widgetVars
    /\ UNCHANGED deployVars

\* the handler takes the mutex and reads the collection
Begin(c) ==
    /\ flight[c].phase = "waiting"
    /\ lock = 0
    /\ lock' = c
    /\ flight' = [flight EXCEPT ![c].phase = "begun", ![c].snap = store,
                                ![c].seq = storeSeq]
    /\ lastOp' = Op("begin", FALSE, dirty, FALSE, FALSE, flight[c].id, NoVal)
    /\ UNCHANGED <<store, storeSeq, result, calls, added, removed, commits>>
    /\ UNCHANGED widgetVars
    /\ UNCHANGED deployVars

\* the handler writes the collection it computed from what it read, gives
\* the mutex back and replies
Commit(c) ==
    /\ flight[c].phase = "begun"
    /\ \E r \in {ApplyCall(flight[c], flight[c].snap, flight[c].seq)} :
          /\ store' = r.store
          /\ storeSeq' = r.seq
          /\ result' = r.result
          /\ added' = IF r.result.kind = "record"
                       THEN Append(added, r.result.recs[1])
                       ELSE added
          /\ removed' = IF r.result.kind = "bool" /\ r.result.flag
                         THEN removed \cup {flight[c].id}
                         ELSE removed
    /\ lock' = 0
    /\ flight' = [flight EXCEPT ![c] = Idle]
    /\ commits' = Append(commits, flight[c])
    /\ lastOp' = Op("commit", FALSE, dirty, FALSE, FALSE, flight[c].id, NoVal)
    /\ UNCHANGED calls
    /\ UNCHANGED widgetVars
    /\ UNCHANGED deployVars

NoArgs == [meal |-> Undef, date |-> Undef, notes |-> Undef]

\* the backend serving several callers at once
NextConc ==
    \/ \E c \in Callers, a \in SystemAdds : CallTool(c, "add_meal", a, Undef)
    \/ \E c \in Callers, id \in Ids(store) \cup {MissingId} :
          CallTool(c, "remove_meal", NoArgs, id)
    \/ \E c \in Callers : Begin(c)
    \/ \E c \in Callers : Commit(c)

SpecConc == InitStore /\ [][NextConc]_vars

\* widget and backend together: a fresh widget (no cached state), the host
\* delivering what the backend holds
InitSystem ==
    /\ Init
    /\ toolOutput \in {NullObj, Obj(MList(<<>>))}
    /\ widgetState = NullObj

NextSystem ==
    \/ Render
    \/ MountEffect /\ UNCHANGED appliedLog
    \/ Deliver(StoreOutput) /\ UNCHANGED appliedLog
    \/ AddMeal
    \/ \E id \in EditIds : DeleteMealById(id)
    \/ \E id \in EditIds, val \in EditVals : UpdateMealById(id, val)
    \/ \E a \in SystemAdds :
          calls < MaxSystemCalls /\ AddMealTool(a.meal, a.date, a.notes)
    \/ \E id \in Ids(store) \cup {MissingId} :
          calls < MaxSystemCalls /\ RemoveMealTool(id)
    \/ calls < MaxSystemCalls /\ ShowMealsTool

SpecSystem == InitSystem /\ [][NextSystem]_vars

---------------------------------------------------------------------------
(* deploy.sh: one command per step, under `set -e` *)

Placeholder == "https://temp.example.com"

\* the URL Cloud Run gives a service when it creates it; later deployments
\* of the service keep it
Urls == {"https://dinnercaster-mcp-a.run.app", "https://dinnercaster-mcp-b.run.app"}

appVars == <<widgetVars, backendVars, lastOp>>

\* a command that succeeds or fails; `set -e` ends the run on failure
Command(from, to, name) ==
    /\ dpc = from
    /\ \E ok \in BOOLEAN :
          /\ dpc' = IF ok THEN to ELSE "failed"
          /\ trace' = IF ok THEN Append(trace, name) ELSE trace

\* ./deploy.sh is started, on a machine with or without pnpm
StartRun ==
    /\ dpc \in {"idle", "done", "failed"}
    /\ runs < MaxRuns
    /\ runs' = runs + 1
    /\ dpc' = "config"
    /\ pnpm' \in BOOLEAN
    /\ sh' = NoShellVars
    /\ trace' = <<>>
    /\ UNCHANGED cloud
    /\ UNCHANGED appVars

\* PROJECT_ID=$(gcloud config get-value project)
GetProject ==
    /\ Command("config", "enable_run", "gcloud config get-value project")
    /\ UNCHANGED <<pnpm, cloud, sh, runs>>
    /\ UNCHANGED appVars

EnableRunApi ==
    /\ Command("enable_run", "enable_registry", "gcloud services enable run")
    /\ UNCHANGED <<pnpm, cloud, sh, runs>>
    /\ UNCHANGED appVars

EnableRegistryApi ==
    /\ Command("enable_registry", "docker_auth",
               "gcloud services enable containerregistry")
    /\ UNCHANGED <<pnpm, cloud, sh, runs>>
    /\ UNCHANGED appVars

ConfigureDocker ==
    /\ Command("docker_auth", "frontend", "gcloud auth configure-docker")
    /\ UNCHANGED <<pnpm, cloud, sh, runs>>
    /\ UNCHANGED appVars

\* if command -v pnpm; then pnpm run build; else echo "... skipping"; fi
BuildFrontend ==
    /\ IF pnpm
       THEN Command("frontend", "docker_build", "pnpm run build")
       ELSE dpc = "frontend" /\ dpc' = "docker_build" /\ trace' = trace
    /\ UNCHANGED <<pnpm, cloud, sh, runs>>
    /\ UNCHANGED appVars

DockerBuild ==
    /\ Command("docker_build", "docker_push", "docker build")
    /\ UNCHANGED <<pnpm, cloud, sh, runs>>
    /\ UNCHANGED appVars

DockerPush ==
    /\ Command("docker_push", "describe", "docker push")
    /\ UNCHANGED <<pnpm, cloud, sh, runs>>
    /\ UNCHANGED appVars

\* EXISTING_URL=$(gcloud run services describe ... 2>/dev/null || echo ""),
\* then TEMP_BASE_URL: a failure of describe only leaves EXISTING_URL empty
DescribeExisting ==
    /\ dpc = "describe"
    /\ \E ok \in BOOLEAN :
          LET url == IF ok /\ cloud.exists THEN cloud.url ELSE "" IN
          sh' = [sh EXCEPT !.EXISTING_URL = url,
                           !.TEMP_BASE_URL = IF url = "" THEN Placeholder
                                             ELSE url]
    /\ dpc' = "deploy"
    /\ UNCHANGED <<pnpm, cloud, trace, runs>>
    /\ UNCHANGED appVars

\* gcloud run deploy ... --set-env-vars BASE_URL=${TEMP_BASE_URL}
RunDeploy ==
    /\ Command("deploy", "get_url", "gcloud run deploy")
    /\ IF dpc' = "failed"
       THEN cloud' = cloud
       ELSE \E u \in Urls :
               cloud' = [exists |-> TRUE,
                         url |-> IF cloud.exists THEN cloud.url ELSE u,
                         baseUrl |-> sh.TEMP_BASE_URL]
    /\ UNCHANGED <<pnpm, sh, runs>>
    /\ UNCHANGED appVars

\* SERVICE_URL=$(gcloud run services describe ...)
GetServiceUrl ==
    /\ Command("get_url", "update", "gcloud run services describe")
    /\ sh' = IF dpc' = "failed" THEN sh ELSE [sh EXCEPT !.SERVICE_URL = cloud.url]
    /\ UNCHANGED <<pnpm, cloud, runs>>
    /\ UNCHANGED appVars

\* a last step that leaves BASE_URL as it was deployed
UpdateBaseUrl_Never ==
    /\ dpc = "update"
    /\ dpc' = "done"
    /\ UNCHANGED <<pnpm, cloud, sh, trace, runs>>
    /\ UNCHANGED appVars

\* if [ "$TEMP_BASE_URL" = "https://temp.example.com" ]; then
\*   gcloud run services update ... --set-env-vars BASE_URL=${SERVICE_URL}
UpdateBaseUrl ==
    /\ IF sh.TEMP_BASE_URL = Placeholder
       THEN /\ Command("update", "done", "gcloud run services update")
            /\ cloud' = IF dpc' = "failed" THEN cloud
                         ELSE [cloud EXCEPT !.baseUrl = sh.SERVICE_URL]
       ELSE /\ dpc = "update"
            /\ dpc' = "done"
            /\ UNCHANGED <<cloud, trace>>
    /\ UNCHANGED <<pnpm, sh, runs>>
    /\ UNCHANGED appVars

NextDeploy ==
    \/ StartRun
    \/ GetProject
    \/ EnableRunApi
    \/ EnableRegistryApi
    \/ ConfigureDocker
    \/ BuildFrontend
    \/ DockerBuild
    \/ DockerPush
    \/ DescribeExisting
    \/ RunDeploy
    \/ GetServiceUrl
    \/ UpdateBaseUrl

SpecDeploy == InitStore /\ [][NextDeploy]_vars

---------------------------------------------------------------------------
(* Properties *)

\* the step is a delivery of a new tool output after mount
DeliveryStep == lastOp'.name = "deliver" /\ steps' = steps + 1

\* the step is one of addMeal, updateMealById, deleteMealById
EditStep ==
    /\ lastOp'.name \in {"addMeal", "updateMealById", "deleteMealById"}
    /\ steps' = steps + 1

\* what a payload record looks like in variant v's view model; ids the
\* payload lacks are left to the caller
ShownMeal(v, m) == IF v = "readonly" THEN m.meal ELSE Coalesce(m.meal, Str(""))

ShownNotes(v, m) ==
    CASE v = "readonly" -> m.notes
      [] v = "notes"    -> Coalesce(m.notes, Str(""))
      [] v = "nonotes"  -> Undef

\* items is exactly payload p as variant v shows it; a record the payload
\* gives no id gets none (read-only) or one generated after the first
\* `base` uid() values
ShowsPayload(v, items, p, base) ==
    /\ Len(items) = Len(p)
    /\ \A i \in 1..Len(p) :
          /\ items[i].meal = ShownMeal(v, p[i])
          /\ items[i].notes = ShownNotes(v, p[i])
          /\ IF ~Nullish(p[i].id) THEN items[i].id = p[i].id
             ELSE IF v = "readonly" THEN items[i].id = p[i].id
             ELSE items[i].id.s = "uid" /\ items[i].id.n > base

\* C1: fresh data wins.  In every variant, when a tool output whose meals list
\* differs from the last applied one is delivered, the view model after the
\* delivery is exactly that payload's records (ids, order, meal names), and
\* nothing of the local edits made since the previous delivery is left.
C1_FreshDataWins ==
    [][(/\ DeliveryStep
        /\ MealsOf(toolOutput').tag = "list"
        /\ MealsOf(toolOutput') # lastApplied)
       => (/\ pc' = "mounted"
           /\ data'.tag = "list"
           /\ ShowsPayload(variant, data'.items, MealsOf(toolOutput').items,
                           nextUid))]_vars

\* a delivery of a different payload has just overwritten local edits
C1_Witness ==
    /\ lastOp.name = "deliver" /\ lastOp.applied /\ lastOp.wasDirty
    /\ ~lastOp.dup
    /\ Len(data.items) = 2
    /\ \E i \in 1..2 : Nullish(MealsOf(toolOutput).items[i].id)

\* C2: duplicate delivery is idempotent.  When a payload equal to the last
\* applied one is delivered again after local edits, the view model still
\* holds the edits.
C2_DuplicateDeliveryKeepsEdits ==
    [][(/\ DeliveryStep
        /\ lastApplied.tag = "list"
        /\ MealsOf(toolOutput') = lastApplied
        /\ dirty)
       => data' = data]_vars

\* ids and meal names of a list of records
IdsAndMeals(items) == [i \in 1..Len(items) |-> <<items[i].id, items[i].meal>>]

\* C3: initial-load precedence.  Once the widget has mounted, the view model
\* holds the cached widget state's meals whenever that state has a meals list,
\* else the tool output's meals, else nothing.
C3_InitialLoadPrecedence ==
    (pc = "mounted" /\ lastOp.name = "mount") =>
        IF MealsOf(widgetState).tag = "list"
        THEN IdsAndMeals(data.items) = IdsAndMeals(MealsOf(widgetState).items)
        ELSE IF MealsOf(toolOutput).tag = "list"
             THEN ShowsPayload(variant, data.items, MealsOf(toolOutput).items, 0)
             ELSE data.items = <<>>

\* every record has an id and no two records share one
AllIdsDistinct(items) ==
    /\ \A i \in 1..Len(items) : ~Nullish(items[i].id)
    /\ \A i, j \in 1..Len(items) : i # j => items[i].id # items[j].id

\* C4: in every reachable state of the widget no two records of the view
\* model have the same id.  (The read-only variant shows payload records as
\* they come: one that arrives without an id has none.)
C4_UniqueIds ==
    pc \in {"rendered", "mounted"} =>
        /\ data.tag = "list"
        /\ DistinctIds(data.items)
        /\ variant \in Editable => AllIdsDistinct(data.items)

\* a view model of generated, server-given and locally added ids
C4_Witness ==
    /\ pc = "mounted"
    /\ Len(data.items) >= 3
    /\ \E i, j \in 1..Len(data.items) :
          /\ data.items[i].id.s = "uid" /\ data.items[j].id.s = "srv"
    /\ lastOp.name = "addMeal"

\* records p[i] and q[j] of two payloads are the same server record: they
\* carry the same id, or neither carries one and they stand at the same place
\* with the same meal name
SameServerRecord(p, i, q, j) ==
    IF Nullish(p[i].id) \/ Nullish(q[j].id)
    THEN Nullish(p[i].id) /\ Nullish(q[j].id) /\ i = j /\ p[i].meal = q[j].meal
    ELSE p[i].id = q[j].id

\* C5: a record keeps its id across reconciliation.  When the same server
\* record appears in two successively applied tool outputs, the view-model
\* record built for it has the same id both times, whether the id came from
\* the server or from buildInitialData.
C5_IdStableAcrossReconciliation ==
    [][(/\ lastOp'.name = "deliver" /\ lastOp'.applied /\ steps' = steps + 1
        /\ lastApplied.tag = "list")
       => \A i \in 1..Len(lastApplied.items), j \in 1..Len(lastApplied'.items) :
             SameServerRecord(lastApplied.items, i, lastApplied'.items, j)
                => lastBuilt[i].id = lastBuilt'[j].id]_vars

\* C6: addMeal, updateMealById and deleteMealById change only the view model,
\* in the step in which they are issued: no tool call is made, and the backend
\* store and the last delivered tool output stay as they are.
C6_EditsTouchOnlyViewModel ==
    [][EditStep =>
        /\ UNCHANGED <<store, storeSeq, result, calls, toolCalls, toolOutput,
                       widgetState, lastSynced, pc, err>>
        /\ data'.tag = "list"
        /\ CASE lastOp'.name = "addMeal" ->
                  /\ Len(data'.items) = Len(data.items) + 1
                  /\ data'.items[1].id = lastOp'.arg
             [] lastOp'.name = "deleteMealById" ->
                  lastOp'.arg \notin Ids(data'.items)
             [] lastOp'.name = "updateMealById" ->
                  \E val \in EditVals : \A i \in 1..Len(data.items) :
                      data.items[i].id = lastOp'.arg =>
                         /\ val.meal # NoKey => data'.items[i].meal = val.meal
                         /\ val.notes # NoKey => data'.items[i].notes = val.notes
       ]_vars

\* an edit of a record the backend holds, made while the store is not empty
C6_Witness ==
    /\ lastOp.name = "updateMealById" /\ lastOp.hit
    /\ Len(store) >= 1
    /\ lastOp.arg \in Ids(store)
    /\ MealsOf(toolOutput).tag = "list"
    /\ data.items # lastBuilt

\* C7: addMeal puts exactly one new record at the front, with an empty meal
\* name and an id that no record of the view model has and that was never
\* generated before; the records already there keep their fields and order.
C7_AddMealPrepends ==
    [][(lastOp'.name = "addMeal" /\ steps' = steps + 1) =>
        /\ Len(data'.items) = Len(data.items) + 1
        /\ Tail(data'.items) = data.items
        /\ Head(data'.items).meal = Str("")
        /\ ~Nullish(Head(data'.items).id)
        /\ Head(data'.items).id \notin Ids(data.items)
        /\ Head(data'.items).id \notin {uid(k) : k \in 1..nextUid}
        /\ Head(data'.items).id \notin Ids(lastBuilt)
       ]_vars

\* addMeal has run on a view model that already held records, after uid()
\* had been used before
C7_Witness ==
    /\ lastOp.name = "addMeal"
    /\ Len(data.items) >= 3
    /\ nextUid >= 2

\* items without the record at place k
RemoveAt(items, k) ==
    [i \in 1..(Len(items) - 1) |-> IF i < k THEN items[i] ELSE items[i + 1]]

\* C8: deleteMealById(id) removes the record with that id in one step, with
\* no confirmation state in between, leaves the other records and their order
\* alone and does not change the backend store; with an id the view model
\* does not hold it changes nothing.
C8_DeleteRemovesOne ==
    [][(lastOp'.name = "deleteMealById" /\ steps' = steps + 1) =>
        /\ UNCHANGED <<pc, store, storeSeq>>
        /\ IF lastOp'.arg \in Ids(data.items)
           THEN \E k \in 1..Len(data.items) :
                   /\ data.items[k].id = lastOp'.arg
                   /\ data'.items = RemoveAt(data.items, k)
           ELSE data' = data
       ]_vars

\* a record was deleted from a view model of several, others remaining
C8_Witness ==
    /\ lastOp.name = "deleteMealById" /\ lastOp.hit
    /\ Len(data.items) >= 1
    /\ Len(store) >= 1

\* C9: the reconciler has no error state.  A tool output or cached state that
\* is null, lacks meals or carries a malformed meals value counts as absent:
\* with only such inputs the initial view model is empty, and no load or
\* delivery ends in an exception.
C9_NoErrorState ==
    /\ ~err
    /\ pc # "crashed"
    /\ (/\ pc \in {"rendered", "mounted"} /\ steps = 0
        /\ MealsOf(toolOutput).tag # "list"
        /\ MealsOf(widgetState).tag # "list") => data = MList(<<>>)

\* C10: the ids of the records in the backend store are pairwise distinct in
\* every reachable state, also when adds follow removes.
C10_StoreIdsUnique ==
    \A i, j \in 1..Len(store) : i # j => store[i].id # store[j].id

\* an add after a remove, two records held
C10_Witness ==
    /\ lastOp.name = "add_meal"
    /\ Len(store) = 2
    /\ storeSeq = 3

\* the step is a tool call the backend served
ToolStep(name) == lastOp'.name = name /\ calls' = calls + 1

\* C11: add_meal with meal empty or absent, or with date empty, absent or not
\* of the form YYYY-MM-DD, returns ValidationError and leaves the record
\* store as it was (same records, same order, same count).
C11_InvalidAddRejected ==
    [][(/\ ToolStep("add_meal")
        /\ \/ lastOp'.val.meal \in {Undef, Str("")}
           \/ lastOp'.val.date \in {Undef, Str("")}
           \/ ~IsYMD(Chars(lastOp'.val.date)))
       => (/\ result'.kind = "ValidationError"
           /\ store' = store)]_vars

\* an add with a meal name and a date of the wrong form was rejected while
\* the store held a record
C11_Witness ==
    /\ lastOp.name = "add_meal"
    /\ lastOp.val.meal = Str("Tacos")
    /\ lastOp.val.date = Str("12/01/2025")
    /\ result.kind = "ValidationError"
    /\ Len(store) >= 1

\* C12: remove_meal(id) with an id the store does not hold returns false,
\* raises no error and leaves the store as it was; with an id the store holds
\* it returns true and removes that one record, the others staying as they
\* were and in their order.
C12_RemoveMeal ==
    [][ToolStep("remove_meal") =>
        /\ result'.kind = "bool"
        /\ IF lastOp'.arg \in Ids(store)
           THEN /\ result'.flag
                /\ \E k \in 1..Len(store) :
                      /\ store[k].id = lastOp'.arg
                      /\ store' = RemoveAt(store, k)
           ELSE /\ ~result'.flag
                /\ store' = store
       ]_vars

\* the first of two stored records was removed, the second one stays
C12_Witness ==
    /\ lastOp.name = "remove_meal"
    /\ lastOp.hit
    /\ result.flag
    /\ Len(store) = 1
    /\ store[1].id # lastOp.arg
    /\ store[1].id.n > lastOp.arg.n

\* the records added and not removed since, in the order they were added
Remaining == SelectSeq(added, LAMBDA r : r.id \notin removed)

\* C13: show_meals returns exactly the records that were added and not yet
\* removed, in insertion order, each with the meal, date and notes it was
\* added with and a generated id; the ids are pairwise distinct.  (One add
\* gives one record, add and remove give none, three adds give three.)
C13_ShowMealsRoundTrip ==
    lastOp.name = "show_meals" =>
        /\ result.kind = "list"
        /\ result.recs = Remaining
        /\ AllIdsDistinct(result.recs)

\* show_meals after three successful adds, not all for the same date
C13_Witness ==
    /\ lastOp.name = "show_meals"
    /\ Len(result.recs) = 3
    /\ removed = {}
    /\ \E i, j \in 1..3 : result.recs[i].date # result.recs[j].date

\* the collection after the calls of cs, one after the other, on st
RECURSIVE ApplyAll(_, _, _)
ApplyAll(cs, st, seq) ==
    IF cs = <<>> THEN st
    ELSE ApplyAll(Tail(cs), ApplyCall(Head(cs), st, seq).store,
                  ApplyCall(Head(cs), st, seq).seq)

\* C14: with several add_meal / remove_meal calls in progress at once, the
\* store is at every moment what the calls that have written it give when
\* applied one after the other (in the order they took the mutex): no
\* successful add is lost, no removed record reappears, ids stay unique.
C14_MutationsSerialized ==
    /\ store = ApplyAll(commits, <<>>, 0)
    /\ store = Remaining
    /\ AllIdsDistinct(store)

\* a successful add has just written the store while a remove of a stored
\* record, called meanwhile, waits for the mutex
C14_Witness ==
    /\ lastOp.name = "commit"
    /\ Len(commits) = 2
    /\ commits[2].op = "add_meal"
    /\ Len(store) = 2
    /\ \E c \in Callers :
          /\ flight[c].phase = "waiting"
          /\ flight[c].op = "remove_meal"
          /\ flight[c].id \in Ids(store)

\* C15: after deploy.sh completes successfully the service's BASE_URL is
\* the service's URL and not the placeholder; a first deployment deploys with
\* the placeholder https://temp.example.com and is updated afterwards, a
\* redeployment that found the service deploys with the existing URL.
C15_BaseUrlIsServiceUrl ==
    [][/\ (dpc = "deploy" /\ dpc' = "get_url") =>
            cloud'.baseUrl = IF cloud.exists /\ sh.EXISTING_URL # ""
                             THEN cloud.url ELSE Placeholder
       /\ (dpc = "update" /\ dpc' = "done") =>
            /\ cloud'.exists
            /\ cloud'.baseUrl = cloud'.url
            /\ cloud'.baseUrl # Placeholder
            /\ cloud'.baseUrl \in Urls
      ]_vars

\* a first deployment has completed: deployed with the placeholder, then
\* updated
C15_Witness ==
    /\ dpc = "done"
    /\ sh.EXISTING_URL = ""
    /\ sh.TEMP_BASE_URL = Placeholder
    /\ cloud.baseUrl = sh.SERVICE_URL
    /\ trace[Len(trace)] = "gcloud run services update"

\* s occurs in t as a subsequence
RECURSIVE IsSubseq(_, _)
IsSubseq(s, t) ==
    IF s = <<>> THEN TRUE
    ELSE IF t = <<>> THEN FALSE
    ELSE IF Head(s) = Head(t) THEN IsSubseq(Tail(s), Tail(t))
    ELSE IsSubseq(s, Tail(t))

\* C16: deploy.sh runs enable APIs, pnpm run build, docker build, docker
\* push, gcloud run deploy, configure URL in this order and stops at the first
\* failing step: whenever gcloud run deploy has run, the APIs were enabled,
\* the frontend assets were built and the image was built and pushed earlier
\* in the same run.
C16_DeployOnlyAfterBuilds ==
    /\ dpc \in {"get_url", "update", "done"} =>
          IsSubseq(<<"gcloud services enable run",
                     "gcloud services enable containerregistry",
                     "pnpm run build", "docker build", "docker push",
                     "gcloud run deploy">>, trace)
    /\ dpc = "done" =>
          IsSubseq(<<"gcloud run deploy", "gcloud run services describe">>, trace)

\* C17: updateMealById(id, val) changes only the fields val holds (meal
\* and/or notes) of the record whose id is id: the number of records, their
\* order, every id and all fields of every other record stay; with an id the
\* view model does not hold nothing changes.
C17_UpdateFrame ==
    [][(lastOp'.name = "updateMealById" /\ steps' = steps + 1) =>
        LET id == lastOp'.arg
            val == lastOp'.val IN
        /\ data'.tag = "list"
        /\ Len(data'.items) = Len(data.items)
        /\ \A i \in 1..Len(data.items) :
              LET old == data.items[i]
                  new == data'.items[i] IN
              /\ new.id = old.id
              /\ new.date = old.date
              /\ IF old.id = id
                 THEN /\ new.meal = IF val.meal = NoKey THEN old.meal ELSE val.meal
                      /\ new.notes = IF val.notes = NoKey THEN old.notes
                                     ELSE val.notes
                 ELSE new = old
        /\ id \notin Ids(data.items) => data' = data
       ]_vars

\* meal and notes of one of several records were updated together
C17_Witness ==
    /\ lastOp.name = "updateMealById" /\ lastOp.hit
    /\ lastOp.val.meal # NoKey /\ lastOp.val.notes # NoKey
    /\ Len(data.items) >= 2
    /\ \E i \in 1..Len(data.items) :
          data.items[i].id # lastOp.arg /\ data.items[i].meal # lastOp.val.meal

\* C18: a delivered tool output that is null or brings no meals leaves the
\* view model, local edits included, as it is in every variant; one whose
\* meals list is present and empty is applied and leaves no records.
C18_AbsentKeepsEmptyApplies ==
    [][DeliveryStep =>
        /\ ~Truthy(MealsOf(toolOutput')) =>
              /\ data' = data
              /\ ~lastOp'.applied
              /\ pc' = "mounted"
        /\ MealsOf(toolOutput') = MList(<<>>) =>
              /\ data' = MList(<<>>)
              /\ pc' = "mounted"
              /\ lastOp'.applied \/ (variant = "readonly" /\ lastSynced = MList(<<>>))
       ]_vars

\* a null tool output was delivered while the view model held local edits
C18_Witness ==
    /\ lastOp.name = "deliver" /\ ~lastOp.applied /\ lastOp.wasDirty
    /\ toolOutput = NullObj
    /\ dirty
    /\ Len(data.items) >= 2

\* C19: in the read-only variant lastSyncedToolOutputRef holds the meals of
\* the most recently applied tool output (null before any), and an output is
\* applied exactly when it has a meals list whose JSON serialization differs
\* from that of the last applied one; so P, Q, P delivered in this order are
\* all applied and the view model ends as P.
C19_LastSyncedGuard ==
    [][(lastOp'.name \in {"mount", "deliver"} /\ pc' = "mounted") =>
        LET m == MealsOf(toolOutput') IN
        /\ lastOp'.applied <=>
              (m.tag = "list" /\ JSONstringify(m) # JSONstringify(lastSynced))
        /\ lastOp'.applied => data' = m
        /\ ~lastOp'.applied => data' = data
        /\ lastSynced' = IF appliedLog' = <<>> THEN MNull
                          ELSE appliedLog'[Len(appliedLog')]
       ]_vars

\* P, Q, P were delivered and applied, the view model is P
C19_Witness ==
    /\ variant = "readonly" /\ pc = "mounted"
    /\ Len(appliedLog) = 3
    /\ appliedLog[1] = appliedLog[3]
    /\ appliedLog[1] # appliedLog[2]
    /\ data = appliedLog[1]
    /\ Len(data.items) >= 1

\* the view-model record variant v builds from payload record m
BuiltFrom(v, new, m) ==
    /\ ~Nullish(m.id) => new.id = m.id
    /\ new.meal = IF Nullish(m.meal) THEN Str("") ELSE m.meal
    /\ v = "notes" =>
          /\ new.notes = IF Nullish(m.notes) THEN Str("") ELSE m.notes
          /\ new.date = IF m.date.t = "str" THEN m.date ELSE Null
    /\ v = "nonotes" => new.date = Undef /\ new.notes = Undef

\* the step ran buildInitialData on the tool output: the effect applied it,
\* or the initializer found no cached meals
BuildStep ==
    /\ variant \in Editable
    /\ MealsOf(toolOutput').tag = "list"
    /\ \/ lastOp'.name \in {"mount", "deliver"} /\ lastOp'.applied
       \/ lastOp'.name = "render" /\ pc = "init" /\ ~Truthy(MealsOf(widgetState))

\* C20: buildInitialData builds one view-model record per payload record, in
\* the payload's order: the payload's id when it has one, else a fresh uid();
\* meal defaults to ""; in the notes variant notes defaults to "" and date is
\* kept only when it is a string, else null; in the no-notes variant only id
\* and meal are kept.
C20_BuildInitialData ==
    [][BuildStep =>
        LET p == MealsOf(toolOutput').items IN
        /\ data'.tag = "list"
        /\ Len(data'.items) = Len(p)
        /\ \A i \in 1..Len(p) :
              /\ BuiltFrom(variant, data'.items[i], p[i])
              /\ Nullish(p[i].id) =>
                    /\ data'.items[i].id \in {uid(k) : k \in (nextUid + 1)..nextUid'}
                    /\ \A j \in 1..Len(p) : j # i => data'.items[j].id # data'.items[i].id
       ]_vars

\* the notes variant has built a record with a date string and notes, and
\* one from a payload record without id, meal name or notes and with a date
\* that is no string
C20_Witness ==
    /\ variant = "notes"
    /\ lastOp.name = "deliver" /\ lastOp.applied
    /\ Len(data.items) = 2
    /\ data.items[1].date = Null /\ data.items[1].id.s = "uid"
    /\ data.items[2].date.t = "str" /\ data.items[2].notes = Str("spicy")

\* C21: in the editable widget addMeal followed by deleteMealById of the new
\* record's id gives back the view model as it was before the addMeal, and
\* deleteMealById is idempotent: a second delete of the same id changes
\* nothing.
C21_AddDeleteRoundTrip ==
    [][/\ (variant = "notes" /\ lastOp'.name = "addMeal" /\ steps' = steps + 1) =>
            deleteMealById(data'.items, lastOp'.arg) = data.items
       /\ (lastOp'.name = "deleteMealById" /\ steps' = steps + 1) =>
            /\ (lastOp.name = "addMeal" /\ lastOp'.arg = lastOp.arg) =>
                  /\ Head(data.items).id = lastOp'.arg
                  /\ data'.items = Tail(data.items)
            /\ (lastOp.name = "deleteMealById" /\ lastOp'.arg = lastOp.arg) =>
                  data' = data
            /\ deleteMealById(data'.items, lastOp'.arg) = data'.items
      ]_vars

\* the record addMeal put in front of a server record was deleted again: the
\* view model is what the tool output gave (no other source of generated ids:
\* no cached state, every payload record has an id)
C21_Witness ==
    /\ variant = "notes"
    /\ lastOp.name = "deleteMealById" /\ lastOp.hit
    /\ lastOp.arg = uid(nextUid)
    /\ steps = 2
    /\ ~Truthy(MealsOf(widgetState))
    /\ MealsOf(toolOutput).tag = "list"
    /\ \A i \in 1..Len(MealsOf(toolOutput).items) :
          ~Nullish(MealsOf(toolOutput).items[i].id)
    /\ Len(data.items) >= 1
    /\ data.items = lastBuilt

===========================================================================
